---- MODULE Spec2Model ----
(***************************************************************************)
(* Iterative DNS resolution of an A record, src/310hw.py: mydig walks the  *)
(* delegation hierarchy from the first root server, following CNAMEs and   *)
(* referrals, and calls itself to resolve a nameserver that has no glue.   *)
(*                                                                         *)
(* The state is the Python call stack of mydig (one frame per call in      *)
(* progress, each with its locals current_domain and current_nameserver    *)
(* and, while it waits at line 101, the response it is iterating over) and *)
(* the value main() receives.  One action is one pass of the `while True`  *)
(* loop: the query of line 57, the response or exception it produces, and  *)
(* everything the code does with it up to the next query, including the    *)
(* returns of nested calls into their callers.  The servers are the        *)
(* environment: every query is answered by any response of Responses, by a *)
(* transport failure or by another exception.                              *)
(***************************************************************************)
EXTENDS Integers, Sequences, FiniteSets, TLC

\* ------------------------------------------------------------ constants

\* The root hint table, lines 11-25.
RootHints ==
    << "198.41.0.4", "199.9.14.201", "192.33.4.12", "199.7.91.13",
       "192.203.230.10", "192.5.5.241", "192.112.36.4", "198.97.190.53",
       "192.36.148.17", "192.58.128.30", "193.0.14.129", "199.7.83.42",
       "202.12.27.33" >>

\* How many entries of the table the model keeps.
NumRoots == 2

\* ROOT_SERVERS, lines 11-25, cut to its first NumRoots entries.
ROOT_SERVERS == SubSeq(RootHints, 1, NumRoots)

\* Depth of nested mydig calls at which the interpreter raises RecursionError
\* (sys.getrecursionlimit(), 1000 by default, scaled down).
RecursionLimit == 2

\* The hop budget max_hops of the specification (the code has none); the
\* model counts queries up to MaxHops + 1 and no further.
MaxHops == 3

\* Python's None.
None == "None"

\* The value of `return None, None`.
Failure == << None, None >>

\* Domain names the servers speak about.
Names == { "a.test.", "b.test.", "c.test." }

\* The names main() is run on; the three names are interchangeable.
Requests == { "a.test." }

\* Addresses found in A records (answers and glue); none is a root server.
RecordAddrs == { "203.0.113.1", "93.184.216.34" }

\* ------------------------------------------------------------- messages

\* dns.rrset.RRset as the code reads it: rdtype, name, and the rdata list
\* (addresses of an A RRset, targets of a CNAME or NS RRset).
RRset(rdtype, name, items) == [ rdtype |-> rdtype, name |-> name, items |-> items ]

ARRsets == { RRset("A", n, << a >>) : n \in Names, a \in RecordAddrs }

CNAMERRsets ==
    { RRset("CNAME", p[1], << p[2] >>) : p \in { q \in Names \X Names : q[1] # q[2] } }

\* An RRset of a type the code does not look for in the answer section.
OtherRRset == RRset("TXT", "a.test.", << "text" >>)

SOARRset == RRset("SOA", "test.", << "ns.test." >>)

\* dns.message.Message as the code reads it.
Message(rcode, answer, authority, additional) ==
    [ rcode |-> rcode, answer |-> answer, authority |-> authority,
      additional |-> additional ]

Rcodes == { "NOERROR", "NXDOMAIN" }

\* Answer sections: one RRset, or an A and a CNAME of one owner in either
\* order.
Answers ==
    { << r >> : r \in ARRsets \cup CNAMERRsets \cup { OtherRRset } }
    \cup { p \in ARRsets \X CNAMERRsets : p[1].name = p[2].name }
    \cup { p \in CNAMERRsets \X ARRsets : p[1].name = p[2].name }

\* Authority sections: empty, an SOA, or two NS targets at most, in one
\* RRset or in two.
NSTargets == { << t >> : t \in Names } \cup { q \in Names \X Names : q[1] # q[2] }

Authorities ==
    { << >>, << SOARRset >> }
    \cup { << RRset("NS", "test.", p) >> : p \in NSTargets }
    \cup { << RRset("NS", "test.", << p[1] >>), RRset("NS", "test.", << p[2] >>) >> :
             p \in { q \in NSTargets : Len(q) = 2 } }

\* Additional sections: up to two address records, of two names and two
\* addresses.
Additionals ==
    { << >> } \cup { << g >> : g \in ARRsets }
    \cup { p \in ARRsets \X ARRsets :
             /\ p[1].name # p[2].name
             /\ p[1].items = << "203.0.113.1" >>
             /\ p[2].items = << "93.184.216.34" >> }

\* The NS targets of an authority section.
TargetsOf(authority) ==
    UNION { { authority[i].items[j] : j \in 1..Len(authority[i].items) } :
            i \in { k \in 1..Len(authority) : authority[k].rdtype = "NS" } }

\* Responses that carry an answer section; beside an answer of another type
\* than A and CNAME there may be a referral with glue.
AnswerResponses ==
    { Message(rc, an, << >>, << >>) : rc \in Rcodes, an \in Answers }
    \cup { Message(rc, << OtherRRset >>, << RRset("NS", "test.", << g.name >>) >>, << g >>) :
             rc \in Rcodes, g \in ARRsets }

\* Responses without one: the address records are of NS targets, or there
\* is one of another name beside a single NS target; two NS RRsets come
\* with glue for the target of the first; a response whose rcode is
\* NXDOMAIN names one NS target at most.
ReferralResponses ==
    { m \in { Message(rc, << >>, au, ad) :
                rc \in Rcodes, au \in Authorities, ad \in Additionals } :
        /\ \/ \A k \in 1..Len(m.additional) :
                 m.additional[k].name \in TargetsOf(m.authority)
           \/ Len(m.additional) = 1 /\ Cardinality(TargetsOf(m.authority)) = 1
        /\ Len(m.authority) = 2 =>
             \E k \in 1..Len(m.additional) :
                 m.additional[k].name = m.authority[1].items[1]
        /\ m.rcode = "NXDOMAIN" => Cardinality(TargetsOf(m.authority)) <= 1 }

\* What a server may send back.
Responses == AnswerResponses \cup ReferralResponses

\* ---------------------------------------------------------------- state

VARIABLES
    stack,       \* the mydig calls in progress, outermost first
    pc,          \* "idle" before main() calls mydig, "running", "done" after
    domain_name, \* the argument of the outermost call (line 143)
    result,      \* (ip_address, final_domain) received at line 147
    exit_line,   \* the line whose return ended the outermost call, 0 before
    final,       \* the answer section read by the step that ended it
    \* The history of the outermost call, kept by the specifications that
    \* follow one walk (WalkSpec); the code has none of it.
    hops,        \* queries sent at line 57, counted up to MaxHops + 1
    visited,     \* the names the call has had as current_domain
    reappeared,  \* a CNAME led the call to a name in visited, or a referral
                 \* led it back to the server that gave the referral
    failed_over, \* a query of the call failed at the transport layer
    untried,     \* glue addresses of the referral that chose the call's
                 \* nameserver, other than that nameserver
    \* What an observer of the traffic sees, kept by the specifications that
    \* watch it (ObsSpec, TwinSpec); the code has none of it.
    exchange,    \* the last query sent at line 57, the server it went to,
                 \* the depth of the call that sent it, and what line 57
                 \* gave: a message, a transport failure, another exception
    trace,       \* the exchanges of the run of mydig in progress
    first        \* the run before it: its trace, its result, whether it
                 \* ended

vars == << stack, pc, domain_name, result, exit_line, final, hops, visited,
           reappeared, failed_over, untried, exchange, trace, first >>

obs == << exchange, trace, first >>

\* What line 57 may give: the message of a server, dns.exception.Timeout or
\* socket.error (line 117), another exception (line 129); and nothing yet.
Got(m) == [ kind |-> "message", message |-> m ]

Timeout == [ kind |-> "timeout" ]

Error == [ kind |-> "error" ]

NoResponse == [ kind |-> "none" ]

\* No run before this one.
NoRun == [ ran |-> FALSE, trace |-> << >>, result |-> Failure, ended |-> FALSE ]

\* dns.flags.RD, the recursion-desired bit of the header flags (0x0100).
RD == 256

\* dns.message.make_query(qname, rdtype): a query whose flags are the
\* library's default, RD alone.
make_query(qname, rdtype) == [ qname |-> qname, rdtype |-> rdtype, flags |-> RD ]

\* flags ^ bit, for a flag that is one bit.
Xor(flags, bit) ==
    IF (flags \div bit) % 2 = 1 THEN flags - bit ELSE flags + bit

\* A frame of mydig in its loop (lines 47-57).
Running(domain, ns) ==
    [ current_domain |-> domain, current_nameserver |-> ns, pending |-> << >>,
      calls |-> 0 ]

\* A frame inside the authority loop (lines 82-106): pending is what its
\* iterators have left.
Waiting(f, pending) == [ f EXCEPT !.pending = pending ]

\* A frame waiting at line 101 for mydig to return, `calls` counting the
\* times the frame reached line 101 in this pass of the authority loop.  Its
\* current_nameserver is not read again before line 89 or 103 assigns it or
\* line 110 returns, and the frame keeps None for it.
Calling(f, pending) ==
    [ current_domain |-> f.current_domain, current_nameserver |-> None,
      pending |-> pending, calls |-> f.calls + 1 ]

Pop(s) == SubSeq(s, 1, Len(s) - 1)

\* ------------------------------------------------------------- the code

\* Lines 87-92: the address of the first A RRset of the additional section
\* whose name is the NS target, None when there is none.
RECURSIVE GlueLookup(_, _, _)
GlueLookup(additional, target, k) ==
    IF k > Len(additional) THEN None
    ELSE IF additional[k].rdtype = "A" /\ additional[k].name = target
         THEN additional[k].items[1]
         ELSE GlueLookup(additional, target, k + 1)

\* What lines 82-92 iterate over: per RRset of the authority section, the
\* targets of an NS RRset (none for another type, line 83), each with the
\* glue address line 88 finds for it in the additional section.
Delegation(resp) ==
    [ i \in 1..Len(resp.authority) |->
        IF resp.authority[i].rdtype = "NS"
        THEN [ j \in 1..Len(resp.authority[i].items) |->
                 [ target |-> resp.authority[i].items[j],
                   glue |-> GlueLookup(resp.additional, resp.authority[i].items[j], 1) ] ]
        ELSE << >> ]

\* Lines 82-106 over what is left of the authority section, with the values
\* found_new_nameserver and current_nameserver have there.  Ends at the end
\* of the section ("end") or at the call of line 101 ("call"), where
\* `pending` is what remains after the rdata being resolved.
RECURSIVE AuthorityLoop(_, _, _)
AuthorityLoop(pending, found, ns) ==
    IF pending = << >>
    THEN [ kind |-> "end", found |-> found, ns |-> ns, target |-> None,
           pending |-> << >> ]
    ELSE IF Head(pending) = << >>
    THEN AuthorityLoop(Tail(pending), found, ns)
    ELSE LET rdata == Head(Head(pending)) IN
         IF rdata.glue # None
         THEN AuthorityLoop(Tail(pending), TRUE, rdata.glue)
         ELSE IF found
         THEN AuthorityLoop(Tail(pending), found, ns)
         ELSE [ kind |-> "call", found |-> found, ns |-> ns, target |-> rdata.target,
                pending |-> << Tail(Head(pending)) >> \o Tail(pending) ]

\* Resume with a failed sub-resolution ending the authority loop, as if the
\* failure were raised into the caller.
Resume_Abort(f, ip) ==
    IF ip # None
    THEN AuthorityLoop(Tail(f.pending), TRUE, ip)
    ELSE [ kind |-> "end", found |-> FALSE, ns |-> None, target |-> None,
           pending |-> << >> ]

\* Lines 101-106: the loop resumed in frame f after mydig returned ip.
Resume(f, ip) ==
    IF ip # None
    THEN AuthorityLoop(Tail(f.pending), TRUE, ip)
    ELSE AuthorityLoop(f.pending, FALSE, f.current_nameserver)

\* The glue addresses in what is left of the authority section.
GlueAddrs(pending) ==
    UNION { { pending[i][j].glue : j \in 1..Len(pending[i]) } :
            i \in 1..Len(pending) } \ { None }

\* A step after which the call on top of stack s goes on with its loop.
GoesOn(s) ==
    [ stack |-> s, done |-> FALSE, result |-> Failure, line |-> 0,
      outer |-> FALSE, untried |-> { }, back |-> FALSE ]

\* Continue(s, out): the stack and the outermost result after the top frame
\* of s has run the authority loop, from what the frame holds as pending, to
\* `out`: it goes on with the nameserver found (line 47), returns at line
\* 110, or calls mydig at line 101.  Return(s, v, line): the same after the
\* top frame of s returned v at `line`.  A call at the recursion limit fails
\* in the callee, which returns None, None (lines 129-131).
RECURSIVE Continue(_, _), Return(_, _, _)
Continue(s, out) ==
    LET f == s[Len(s)] IN
    IF out.kind = "end"
    THEN IF out.found
         THEN [ GoesOn(Pop(s) \o << Running(f.current_domain, out.ns) >>)
                  EXCEPT !.outer = (Len(s) = 1),
                         !.untried = GlueAddrs(f.pending) \ { out.ns },
                         !.back = (out.ns = f.current_nameserver) ]
         ELSE Return(s, Failure, 110)
    ELSE LET w == Calling(f, out.pending) IN
         IF Len(s) >= RecursionLimit
         THEN Continue(Pop(s) \o << w >>, Resume(w, None))
         ELSE GoesOn(Pop(s) \o << w, Running(out.target, ROOT_SERVERS[1]) >>)

Return(s, v, line) ==
    IF Len(s) = 1
    THEN [ GoesOn(<< >>) EXCEPT !.done = TRUE, !.result = v, !.line = line ]
    ELSE Continue(Pop(s), Resume(s[Len(s) - 1], v[1]))

\* Index of x in ROOT_SERVERS, 0 when absent (list.index raises ValueError).
RootIndex(x) ==
    IF \E k \in 1..Len(ROOT_SERVERS) : ROOT_SERVERS[k] = x
    THEN CHOOSE k \in 1..Len(ROOT_SERVERS) : ROOT_SERVERS[k] = x
    ELSE 0

\* Failover with the index wrapping round the table instead of running off
\* its end.
Failover_Wrap(s) ==
    LET f   == s[Len(s)]
        idx == RootIndex(f.current_nameserver)
    IN  IF idx # 0
        THEN GoesOn(Pop(s) \o << Running(f.current_domain,
                                         ROOT_SERVERS[(idx % Len(ROOT_SERVERS)) + 1]) >>)
        ELSE Return(s, Failure, 127)

\* Failover going back to the first root server when the server that failed
\* is not in the table.
Failover_FirstRoot(s) ==
    LET f   == s[Len(s)]
        idx == RootIndex(f.current_nameserver)
    IN  IF idx = 0
        THEN GoesOn(Pop(s) \o << Running(f.current_domain, ROOT_SERVERS[1]) >>)
        ELSE IF idx + 1 <= Len(ROOT_SERVERS)
        THEN GoesOn(Pop(s) \o << Running(f.current_domain, ROOT_SERVERS[idx + 1]) >>)
        ELSE Return(s, Failure, 127)

\* Lines 120-127: the stack after the query of the top frame failed at the
\* transport layer.
Failover(s) ==
    LET f   == s[Len(s)]
        idx == RootIndex(f.current_nameserver)
    IN  IF idx # 0 /\ idx + 1 <= Len(ROOT_SERVERS)
        THEN GoesOn(Pop(s) \o << Running(f.current_domain, ROOT_SERVERS[idx + 1]) >>)
        ELSE Return(s, Failure, 127)

\* Lines 62-77: the first RRset of the answer section that is an A or a
\* CNAME, 0 when there is none.
RECURSIVE FirstUsable(_, _)
FirstUsable(answer, k) ==
    IF k > Len(answer) THEN 0
    ELSE IF answer[k].rdtype \in { "A", "CNAME" } THEN k
    ELSE FirstUsable(answer, k + 1)

\* ReadAnswer returning the address of the server asked instead of the
\* address in the record.
ReadAnswer_ServerAddr(s, answer) ==
    LET f == s[Len(s)]
        k == FirstUsable(answer, 1)
    IN  IF k = 0 THEN Return(s, Failure, 77)
        ELSE IF answer[k].rdtype = "A"
        THEN Return(s, << f.current_nameserver, f.current_domain >>, 65)
        ELSE GoesOn(Pop(s) \o << Running(answer[k].items[1], ROOT_SERVERS[1]) >>)

\* ReadAnswer returning the name mydig was called with instead of the name
\* it ended on.
ReadAnswer_RequestedName(s, answer) ==
    LET k == FirstUsable(answer, 1)
    IN  IF k = 0 THEN Return(s, Failure, 77)
        ELSE IF answer[k].rdtype = "A"
        THEN Return(s, << answer[k].items[1], domain_name >>, 65)
        ELSE GoesOn(Pop(s) \o << Running(answer[k].items[1], ROOT_SERVERS[1]) >>)

\* ReadAnswer keeping, after a CNAME, the nameserver that gave it.
ReadAnswer_KeepServer(s, answer) ==
    LET f == s[Len(s)]
        k == FirstUsable(answer, 1)
    IN  IF k = 0 THEN Return(s, Failure, 77)
        ELSE IF answer[k].rdtype = "A"
        THEN Return(s, << answer[k].items[1], f.current_domain >>, 65)
        ELSE GoesOn(Pop(s) \o << Running(answer[k].items[1], f.current_nameserver) >>)

\* Lines 60-77: the stack after the top frame read a non-empty answer
\* section.
ReadAnswer(s, answer) ==
    LET f == s[Len(s)]
        k == FirstUsable(answer, 1)
    IN  IF k = 0 THEN Return(s, Failure, 77)
        ELSE IF answer[k].rdtype = "A"
        THEN Return(s, << answer[k].items[1], f.current_domain >>, 65)
        ELSE GoesOn(Pop(s) \o << Running(answer[k].items[1], ROOT_SERVERS[1]) >>)

\* ReadAuthority taking the RRsets of every type for NS RRsets, the test of
\* line 83 left out.
ReadAuthority_AnyType(s, resp) ==
    LET f == s[Len(s)]
        delegation ==
            [ i \in 1..Len(resp.authority) |->
                [ j \in 1..Len(resp.authority[i].items) |->
                    [ target |-> resp.authority[i].items[j],
                      glue |-> GlueLookup(resp.additional,
                                          resp.authority[i].items[j], 1) ] ] ]
    IN  Continue(Pop(s) \o << Waiting(f, delegation) >>,
                 AuthorityLoop(delegation, FALSE, f.current_nameserver))

\* Lines 80-110: the stack after the top frame read a response with no
\* answer section and an authority section.
ReadAuthority(s, resp) ==
    LET f == s[Len(s)] IN
    Continue(Pop(s) \o << Waiting(f, Delegation(resp)) >>,
             AuthorityLoop(Delegation(resp), FALSE, f.current_nameserver))

\* -------------------------------------------------------------- actions

\* The state after a query of the top frame led to `next`, `answer` being
\* the answer section read ( << >> when none was), `cname` the name the
\* outermost call took from it as its new current_domain (None otherwise)
\* and `failure` whether the query failed at the transport layer; `walk`
\* tells whether the history of the outermost call is kept.
Becomes(next, answer, cname, failure, walk) ==
    /\ stack' = next.stack
    /\ pc' = IF next.done THEN "done" ELSE "running"
    /\ result' = IF next.done THEN next.result ELSE result
    /\ exit_line' = next.line
    /\ final' = IF next.done THEN answer ELSE << >>
    /\ IF walk
       THEN /\ hops' = IF hops < MaxHops + 1 THEN hops + 1 ELSE hops
            /\ visited' = IF cname # None THEN visited \cup { cname } ELSE visited
            /\ reappeared' = \/ reappeared
                             \/ cname # None /\ cname \in visited
                             \/ next.outer /\ next.back
            /\ failed_over' = (failed_over \/ failure)
            /\ untried' = IF cname # None THEN { }
                          ELSE IF next.outer THEN next.untried ELSE untried
       ELSE UNCHANGED << hops, visited, reappeared, failed_over, untried >>
    /\ UNCHANGED domain_name

Init ==
    /\ stack = << >>
    /\ pc = "idle"
    /\ domain_name = None
    /\ result = Failure
    /\ exit_line = 0
    /\ final = << >>
    /\ hops = 0
    /\ visited = { }
    /\ reappeared = FALSE
    /\ failed_over = FALSE
    /\ untried = { }
    /\ exchange = [ depth |-> 0, server |-> None, query |-> make_query(None, None),
                    got |-> NoResponse ]
    /\ trace = << >>
    /\ first = NoRun

\* main() calls mydig(domain_name), lines 147 and 39-40.
Start ==
    /\ pc = "idle"
    /\ \E name \in Requests :
        /\ domain_name' = name
        /\ stack' = << Running(name, ROOT_SERVERS[1]) >>
    /\ pc' = "running"
    /\ UNCHANGED << result, exit_line, final, hops, visited, reappeared,
                    failed_over, untried >>

\* The same, the history of the call being kept.
StartWalk ==
    /\ pc = "idle"
    /\ \E name \in Requests :
        /\ domain_name' = name
        /\ stack' = << Running(name, ROOT_SERVERS[1]) >>
        /\ visited' = { name }
    /\ pc' = "running"
    /\ UNCHANGED << result, exit_line, final, hops, reappeared, failed_over,
                    untried >>

\* Lines 60-65: the answer section's first A or CNAME RRset is an A.
AnswerA(R, walk) ==
    /\ pc = "running"
    /\ \E resp \in R :
        /\ resp.answer # << >>
        /\ FirstUsable(resp.answer, 1) # 0
        /\ resp.answer[FirstUsable(resp.answer, 1)].rdtype = "A"
        /\ Becomes(ReadAnswer(stack, resp.answer), resp.answer, None, FALSE, walk)

\* Lines 66-73: the answer section's first A or CNAME RRset is a CNAME.
FollowCNAME(R, walk) ==
    /\ pc = "running"
    /\ \E resp \in R :
        /\ resp.answer # << >>
        /\ FirstUsable(resp.answer, 1) # 0
        /\ resp.answer[FirstUsable(resp.answer, 1)].rdtype = "CNAME"
        /\ Becomes(ReadAnswer(stack, resp.answer), resp.answer,
                   IF Len(stack) = 1
                   THEN resp.answer[FirstUsable(resp.answer, 1)].items[1]
                   ELSE None,
                   FALSE, walk)

\* AnswerUnusable going on to the authority section, as if line 80 were an
\* `if` after the answer loop.
AnswerUnusable_UseAuthority(R, walk) ==
    /\ pc = "running"
    /\ \E resp \in R :
        /\ resp.answer # << >>
        /\ FirstUsable(resp.answer, 1) = 0
        /\ Becomes(IF resp.authority # << >>
                   THEN ReadAuthority(stack, resp)
                   ELSE ReadAnswer(stack, resp.answer),
                   resp.answer, None, FALSE, walk)

\* Lines 74-77: an answer section with neither.
AnswerUnusable(R, walk) ==
    /\ pc = "running"
    /\ \E resp \in R :
        /\ resp.answer # << >>
        /\ FirstUsable(resp.answer, 1) = 0
        /\ Becomes(ReadAnswer(stack, resp.answer), resp.answer, None, FALSE, walk)

\* Lines 80-110: no answer section, an authority section.
Referral(R, walk) ==
    /\ pc = "running"
    /\ \E resp \in R :
        /\ resp.answer = << >>
        /\ resp.authority # << >>
        /\ Becomes(ReadAuthority(stack, resp), << >>, None, FALSE, walk)

\* Lines 113-115: neither answer nor authority section.
EmptyResponse(R, walk) ==
    /\ pc = "running"
    /\ \E resp \in R :
        /\ resp.answer = << >>
        /\ resp.authority = << >>
        /\ Becomes(Return(stack, Failure, 115), << >>, None, FALSE, walk)

\* Lines 117-127: dns.exception.Timeout or socket.error from line 57.
TransportFailure(walk) ==
    /\ pc = "running"
    /\ Becomes(Failover(stack), << >>, None, TRUE, walk)

\* Lines 129-131: any other exception from lines 52-57 (a malformed reply).
UnexpectedError(walk) ==
    /\ pc = "running"
    /\ Becomes(Return(stack, Failure, 131), << >>, None, FALSE, walk)

\* Lines 60-77 are read by one operator, and the three actions on an answer
\* section differ by their guards alone.

\* mydig against servers that may send any response.
Next ==
    \/ Start /\ UNCHANGED obs
    \/ AnswerA(AnswerResponses, FALSE) /\ UNCHANGED obs
    \/ FollowCNAME(AnswerResponses, FALSE) /\ UNCHANGED obs
    \/ AnswerUnusable(AnswerResponses, FALSE) /\ UNCHANGED obs
    \/ Referral(ReferralResponses, FALSE) /\ UNCHANGED obs
    \/ EmptyResponse(ReferralResponses, FALSE) /\ UNCHANGED obs
    \/ TransportFailure(FALSE) /\ UNCHANGED obs
    \/ UnexpectedError(FALSE) /\ UNCHANGED obs

Spec == Init /\ [][Next]_vars

\* The program runs on: a query returns or raises within its timeout (line
\* 57), and nothing else blocks.
FairSpec == Spec /\ WF_vars(Next)

\* Referrals in which every NS target has glue: no call of line 101.
GluedResponses ==
    { m \in ReferralResponses :
        \A i \in 1..Len(Delegation(m)) : \A j \in 1..Len(Delegation(m)[i]) :
            Delegation(m)[i][j].glue # None }

\* One walk of mydig, with its history, against servers whose referrals
\* carry glue for every nameserver they name.
WalkNext ==
    \/ StartWalk /\ UNCHANGED obs
    \/ AnswerA(AnswerResponses, TRUE) /\ UNCHANGED obs
    \/ FollowCNAME(AnswerResponses, TRUE) /\ UNCHANGED obs
    \/ AnswerUnusable(AnswerResponses, TRUE) /\ UNCHANGED obs
    \/ Referral(GluedResponses, TRUE) /\ UNCHANGED obs
    \/ EmptyResponse(GluedResponses, TRUE) /\ UNCHANGED obs
    \/ TransportFailure(TRUE) /\ UNCHANGED obs
    \/ UnexpectedError(TRUE) /\ UNCHANGED obs

WalkSpec == Init /\ [][WalkNext]_vars

FairWalkSpec == WalkSpec /\ WF_vars(WalkNext)

\* The referrals of the servers that are watched: those with glue for every
\* nameserver, and those that name one nameserver and give no glue.
ObsReferrals ==
    GluedResponses
    \cup { Message("NOERROR", << >>, << RRset("NS", "test.", << t >>) >>, << >>) :
             t \in Names }

\* The call on top of the stack, the one that sends the next query.
Top == stack[Len(stack)]

\* The query as make_query gives it, line 53 left out.
Query_Default == make_query(Top.current_domain, "A")

\* Lines 52-53: the query that call builds.
Query ==
    LET query == make_query(Top.current_domain, "A")
    IN  [ query EXCEPT !.flags = Xor(query.flags, RD) ]

\* Line 57: the exchange in which that query got `got`.
Exchange(got) ==
    [ depth |-> Len(stack), server |-> Top.current_nameserver, query |-> Query,
      got |-> got ]

\* The step whose query line 57 answered with `got`.
Observed(got) == exchange' = Exchange(got) /\ UNCHANGED << trace, first >>

\* mydig against these servers, each step with what line 57 gave it.
ObsNext ==
    \/ Start /\ UNCHANGED obs
    \/ \E resp \in AnswerResponses : AnswerA({ resp }, FALSE) /\ Observed(Got(resp))
    \/ \E resp \in AnswerResponses : FollowCNAME({ resp }, FALSE) /\ Observed(Got(resp))
    \/ \E resp \in AnswerResponses : AnswerUnusable({ resp }, FALSE) /\ Observed(Got(resp))
    \/ \E resp \in ObsReferrals : Referral({ resp }, FALSE) /\ Observed(Got(resp))
    \/ \E resp \in ObsReferrals : EmptyResponse({ resp }, FALSE) /\ Observed(Got(resp))
    \/ TransportFailure(FALSE) /\ Observed(Timeout)
    \/ UnexpectedError(FALSE) /\ Observed(Error)

ObsSpec == Init /\ [][ObsNext]_vars

\* What the servers of a deterministic hierarchy give: an address, CNAMEs
\* (a cycle among them), referrals with and without glue, an SOA, a TXT
\* answer, an empty message, a transport failure, a malformed reply.
TwinOutcomes ==
    { Got(Message("NOERROR", an, << >>, << >>)) :
        an \in { << RRset("A", "a.test.", << "93.184.216.34" >>) >>,
                 << RRset("CNAME", "a.test.", << "b.test." >>) >>,
                 << RRset("CNAME", "b.test.", << "a.test." >>) >>,
                 << OtherRRset >> } }
    \cup { Got(Message("NOERROR", << >>, au, ad)) :
             au \in { << RRset("NS", "test.", << "b.test." >>) >> },
             ad \in { << >>, << RRset("A", "b.test.", << "203.0.113.1" >>) >> } }
    \cup { Got(Message("NOERROR", << >>, << RRset("NS", "test.", << "b.test.", "c.test." >>) >>,
                       << >>)),
           Got(Message("NXDOMAIN", << >>, << SOARRset >>, << >>)),
           Got(Message("NOERROR", << >>, << >>, << >>)),
           Timeout, Error }

\* What the hierarchy gives the query the top call sends: what it gave the
\* same query to the same server before, in this run or in the run before
\* it, and any outcome when that server has not had that query.
Serve ==
    LET seen  == first.trace \o trace
        known == { seen[k].got : k \in { i \in 1..Len(seen) :
                                           /\ seen[i].server = Top.current_nameserver
                                           /\ seen[i].query = Query } }
    IN  IF known # { } THEN known ELSE TwinOutcomes

\* The step whose query line 57 answered with `got`, the exchange added to
\* the trace of the run.
Traced(got) ==
    /\ exchange' = Exchange(got)
    /\ trace' = Append(trace, Exchange(got))
    /\ first' = first

\* The run is followed for MaxHops + 1 queries and no further.
Followed == pc = "running" /\ Len(trace) <= MaxHops

\* A second run of mydig on the same name, starting at the first root
\* server however the first run went.
Again_NextRoot ==
    /\ ~ first.ran
    /\ pc = "done" \/ (pc = "running" /\ Len(trace) > MaxHops)
    /\ first' = [ ran |-> TRUE, trace |-> trace, result |-> result,
                  ended |-> (pc = "done") ]
    /\ trace' = << >>
    /\ stack' = << Running(domain_name, ROOT_SERVERS[2]) >>
    /\ pc' = "running"
    /\ result' = Failure
    /\ exit_line' = 0
    /\ final' = << >>
    /\ UNCHANGED << domain_name, exchange, hops, visited, reappeared, failed_over,
                    untried >>

\* main() run a second time on the same name once the first run has ended
\* or has been followed to the end: lines 147 and 39-40, the trace and the
\* result of the first run kept aside.
Again ==
    /\ ~ first.ran
    /\ pc = "done" \/ (pc = "running" /\ Len(trace) > MaxHops)
    /\ first' = [ ran |-> TRUE, trace |-> trace, result |-> result,
                  ended |-> (pc = "done") ]
    /\ trace' = << >>
    /\ stack' = << Running(domain_name, ROOT_SERVERS[1]) >>
    /\ pc' = "running"
    /\ result' = Failure
    /\ exit_line' = 0
    /\ final' = << >>
    /\ UNCHANGED << domain_name, exchange, hops, visited, reappeared, failed_over,
                    untried >>

\* Two runs of mydig on one name against one deterministic hierarchy.
TwinNext ==
    \/ Start /\ UNCHANGED obs
    \/ Followed /\ \E got \in Serve :
         got.kind = "message" /\ AnswerA({ got.message }, FALSE) /\ Traced(got)
    \/ Followed /\ \E got \in Serve :
         got.kind = "message" /\ FollowCNAME({ got.message }, FALSE) /\ Traced(got)
    \/ Followed /\ \E got \in Serve :
         got.kind = "message" /\ AnswerUnusable({ got.message }, FALSE) /\ Traced(got)
    \/ Followed /\ \E got \in Serve :
         got.kind = "message" /\ Referral({ got.message }, FALSE) /\ Traced(got)
    \/ Followed /\ \E got \in Serve :
         got.kind = "message" /\ EmptyResponse({ got.message }, FALSE) /\ Traced(got)
    \/ Followed /\ Timeout \in Serve /\ TransportFailure(FALSE) /\ Traced(Timeout)
    \/ Followed /\ Error \in Serve /\ UnexpectedError(FALSE) /\ Traced(Error)
    \/ Again

TwinSpec == Init /\ [][TwinNext]_vars

\* --------------------------------------------------------------- claims

Succeeded == pc = "done" /\ result # Failure

\* C1: one resolution sends at most max_hops queries: the hop count never
\* exceeds the budget (the code keeps no budget, and the count passes it).
C1_HopBudget == hops <= MaxHops

\* C2: once the current target has reappeared (an alias or delegation
\* cycle), the resolution ends.
C2_CycleEnds == reappeared ~> (pc = "done")

\* C3: after a walk without CNAME and without transport failure, through
\* referrals with glue, that ends on an answer section holding one A RRset
\* of the requested name, mydig returns that RRset's address and the
\* requested name.
C3_HierarchyAnswer ==
    ( /\ pc = "done"
      /\ ~ failed_over
      /\ visited = { domain_name }
      /\ Len(final) = 1
      /\ final[1].rdtype = "A"
      /\ final[1].name = domain_name )
    => result = << final[1].items[1], domain_name >>

\* The walk root -> TLD -> authoritative of the specification's scenario:
\* three queries, two referrals with glue, the A record of the name.
C3_Witness ==
    /\ pc = "done"
    /\ hops = 3
    /\ ~ failed_over
    /\ visited = { domain_name }
    /\ final = << RRset("A", domain_name, << "93.184.216.34" >>) >>
    /\ result = << "93.184.216.34", domain_name >>

\* The name the one CNAME of a walk led to.
AliasTarget == CHOOSE x \in visited : x # domain_name

\* C4: after one CNAME, from the requested name to a second name, and an
\* answer section holding one A RRset of the second name, mydig returns
\* that address and the second name; and whatever happened, the address and
\* the name it returns are both None or both present.
C4_AliasAnswer ==
    pc = "done" =>
        /\ result = Failure \/ (result[1] # None /\ result[2] # None)
        /\ ( /\ Cardinality(visited) = 2
             /\ ~ reappeared
             /\ Len(final) = 1
             /\ final[1].rdtype = "A"
             /\ final[1].name = AliasTarget )
           => result = << final[1].items[1], AliasTarget >>

\* alias -> real, then the A record of real.
C4_Witness ==
    /\ pc = "done"
    /\ domain_name = "a.test."
    /\ visited = { "a.test.", "b.test." }
    /\ ~ reappeared
    /\ final = << RRset("A", "b.test.", << "203.0.113.1" >>) >>
    /\ result = << "203.0.113.1", "b.test." >>

\* C5: a successful resolution exposes every alias it followed: each name of
\* the chain is in what the caller holds, its argument and the value
\* returned (the code returns the last name alone).
C5_ChainExposed == Succeeded => visited \subseteq { domain_name, result[2] }

\* C6: if from some point on every query fails at the transport layer, the
\* resolution ends.
C6_TransportEnds == <>[][TransportFailure(FALSE)]_vars => <>(pc = "done")

\* The resolution ended at line 127, out of servers to try.
C6_Witness == pc = "done" /\ exit_line = 127 /\ result = Failure

\* C7: a transport failure ends the resolution only when no other candidate
\* of the delegation is left to try (the code tries none of them).
C7_NextCandidate == ~ (pc = "done" /\ exit_line = 127 /\ untried # { })

\* C8: no sub-resolution (a call of line 101) is in progress for a referral
\* that carries glue for one of its NS targets (the code resolves an NS
\* target without glue before it looks at the glue of the next one).
C8_GluePreferred ==
    \A k \in 1..(Len(stack) - 1) : GlueAddrs(stack[k].pending) = { }

\* C9: every sub-resolution returns, whatever the servers answer (the code
\* gives the nested call no budget, and a CNAME cycle keeps it for ever).
C9_SubResolutionEnds == (Len(stack) > 1) ~> (Len(stack) <= 1)

\* NS targets are left in what a frame still has to iterate over.
TargetsLeft(pending) == \E i \in 1..Len(pending) : pending[i] # << >>

\* C10: a step never ends a call that waits at line 101 and has NS targets
\* left: when its sub-resolution fails, the call goes on with the next one.
C10_SubFailureContained ==
    [][ \A k \in 1..(Len(stack) - 1) :
          TargetsLeft(stack[k].pending) =>
            /\ Len(stack') >= k
            /\ stack'[k].current_domain = stack[k].current_domain ]_vars

\* A call resolves its second NS target, the first one having failed.
C10_Witness == \E k \in 1..Len(stack) : stack[k].calls = 2

\* The RRsets of type t and owner name n in an answer section.
Holds(answer, t, n) ==
    { k \in 1..Len(answer) : answer[k].rdtype = t /\ answer[k].name = n }

\* The last exchange brought the outermost call a message.
OuterMessage == exchange.depth = 1 /\ exchange.got.kind = "message"

\* C11: when the outermost call has read an answer section holding both an
\* A RRset and a CNAME RRset of the name it asked for, it has returned the
\* address of the A RRset, whatever their order (the code takes the first of
\* the two and follows a CNAME placed before the A).
C11_APreferred ==
    ( /\ OuterMessage
      /\ Holds(exchange.got.message.answer, "A", exchange.query.qname) # { }
      /\ Holds(exchange.got.message.answer, "CNAME", exchange.query.qname) # { } )
    => /\ pc = "done"
       /\ \E k \in Holds(exchange.got.message.answer, "A", exchange.query.qname) :
             result = << exchange.got.message.answer[k].items[1], exchange.query.qname >>

\* C12: the address of a successful resolution is that of an A RRset, in the
\* answer section read last, whose owner is the name returned with it, the
\* name asked for at that hop (the code does not read the owner of the A
\* RRset it returns).
C12_OwnerMatches ==
    Succeeded =>
        /\ exchange.got.kind = "message"
        /\ \E k \in Holds(exchange.got.message.answer, "A", result[2]) :
              exchange.got.message.answer[k].items[1] = result[1]

\* C13: when the outermost call has read a response whose rcode is NXDOMAIN,
\* it has returned failure, whatever the sections hold (the code does not
\* read the rcode).
C13_NameNotFound ==
    ( OuterMessage /\ exchange.got.message.rcode = "NXDOMAIN" )
    => ( pc = "done" /\ result = Failure )

\* No answer section, and an authority section of SOA RRsets alone.
SOAOnly(m) ==
    /\ m.answer = << >>
    /\ m.authority # << >>
    /\ \A k \in 1..Len(m.authority) : m.authority[k].rdtype = "SOA"

\* The call that made the last exchange has returned, and what follows it on
\* the stack, if anything does, is the next call of its caller.
CallEnded ==
    \/ Len(stack) < exchange.depth
    \/ /\ Len(stack) = exchange.depth
       /\ exchange.depth > 1
       /\ stack[exchange.depth - 1].calls > 1
       /\ Top = Running(Top.current_domain, ROOT_SERVERS[1])

\* C14: when a call has read a response with no answer section and an
\* authority section of SOA RRsets alone, it has returned without another
\* query and without a call of line 101, and the outermost call has
\* returned failure at line 110.
C14_NoData ==
    ( exchange.got.kind = "message" /\ SOAOnly(exchange.got.message) )
    => /\ CallEnded
       /\ exchange.depth = 1 =>
            ( pc = "done" /\ result = Failure /\ exit_line = 110 )

\* The outermost call got an SOA for its name and returned failure.
C14_Witness ==
    /\ OuterMessage
    /\ exchange.got.message.authority = << SOARRset >>
    /\ exchange.got.message.answer = << >>
    /\ pc = "done"
    /\ result = Failure
    /\ exit_line = 110

\* The value the caller receives when the servers to try have run out, line
\* 127.
TransportExhausted == << None, None >>

\* C15: a resolution that failed for another cause than the servers running
\* out (lines 77, 110, 115, 131) gives the caller another value than that
\* one (the code returns None, None at each of these lines).
C15_DistinctFailures ==
    ( pc = "done" /\ exit_line \notin { 65, 127 } ) => result # TransportExhausted

\* C16: every query sent, by the outermost call and by every nested one, has
\* the RD bit clear and asks for type A.
C16_NoRecursionDesired ==
    exchange.got.kind # "none" =>
        /\ (exchange.query.flags \div RD) % 2 = 0
        /\ exchange.query.rdtype = "A"

\* A query of a nested call, for the name of a nameserver.
C16_Witness ==
    /\ exchange.depth > 1
    /\ exchange.query = [ qname |-> "b.test.", rdtype |-> "A", flags |-> 0 ]
    /\ exchange.got.kind = "message"

\* The last exchange brought a message whose answer section led to a CNAME
\* (lines 66-73).
GotCNAME ==
    /\ exchange.got.kind = "message"
    /\ FirstUsable(exchange.got.message.answer, 1) # 0
    /\ exchange.got.message.answer[FirstUsable(exchange.got.message.answer, 1)].rdtype
         = "CNAME"

\* C17: when a call has read a CNAME, whatever server gave it, the call goes
\* on and its next query is for the CNAME's target, to the first root
\* server.
C17_RestartAtRoot ==
    GotCNAME =>
        /\ pc = "running"
        /\ Len(stack) = exchange.depth
        /\ Top.current_domain =
             exchange.got.message.answer[FirstUsable(exchange.got.message.answer, 1)].items[1]
        /\ Top.current_nameserver = ROOT_SERVERS[1]

\* The CNAME came from a delegated server.
C17_Witness ==
    /\ GotCNAME
    /\ exchange.server \in RecordAddrs
    /\ Top = Running("c.test.", ROOT_SERVERS[1])

\* C19: when a query has failed at the transport layer, the call goes on
\* with the same name at the next root server if the server that failed is a
\* root server other than the last; otherwise the call has returned without
\* another query, and the outermost call has returned failure at line 127.
C19_FailoverOrder ==
    exchange.got.kind = "timeout" =>
        LET idx == RootIndex(exchange.server)
        IN  IF idx # 0 /\ idx < Len(ROOT_SERVERS)
            THEN /\ pc = "running"
                 /\ Len(stack) = exchange.depth
                 /\ Top = Running(exchange.query.qname, ROOT_SERVERS[idx + 1])
            ELSE /\ CallEnded
                 /\ exchange.depth = 1 =>
                      ( pc = "done" /\ result = Failure /\ exit_line = 127 )

\* A delegated server failed, and the resolution ended.
C19_Witness ==
    /\ exchange.got.kind = "timeout"
    /\ exchange.depth = 1
    /\ exchange.server \in RecordAddrs
    /\ pc = "done"
    /\ exit_line = 127

\* C20: when a call has read an answer section with neither an A nor a
\* CNAME RRset, it has returned without another query, whatever the
\* authority and additional sections hold, and the outermost call has
\* returned failure at line 77.
C20_UnusableAnswer ==
    ( /\ exchange.got.kind = "message"
      /\ exchange.got.message.answer # << >>
      /\ FirstUsable(exchange.got.message.answer, 1) = 0 )
    => /\ CallEnded
       /\ exchange.depth = 1 =>
            ( pc = "done" /\ result = Failure /\ exit_line = 77 )

\* A TXT answer came with a referral and its glue, and the resolution ended.
C20_Witness ==
    /\ OuterMessage
    /\ exchange.got.message.answer = << OtherRRset >>
    /\ TargetsOf(exchange.got.message.authority) # { }
    /\ GlueAddrs(Delegation(exchange.got.message)) # { }
    /\ pc = "done"
    /\ exit_line = 77

====
